---- MODULE Spec2Model ----
(***************************************************************************)
(* Dimension resolution and row shaping of runAnalytics                    *)
(* (src/src/datasources/analytics.js) together with the dimension          *)
(* processors (src/src/utils/dimension-processors.js) and the dimension    *)
(* table of config.js.                                                     *)
(*                                                                         *)
(* JavaScript strings are sequences of one-character strings, JavaScript   *)
(* values are records [type, chars, num], JavaScript objects are functions *)
(* from their keys to values.                                              *)
(***************************************************************************)
EXTENDS Integers, Sequences, FiniteSets, TLC

VARIABLES pc, query, apiDimensions, dimensionMapping, responseData, rows,
          call, returned,
          currentFilters, shown,
          env, requests,
          promise, server, timer

\* renderers.js: the module's filter state and the pages put on the terminal
uiVars == <<currentFilters, shown>>

\* the process: process.env and the HTTP requests being served
processVars == <<env, requests>>

\* waitForCallback: its promise, its callback server and its timer
oauthVars == <<promise, server, timer>>

moduleVars == <<uiVars, processVars, oauthVars>>

vars == <<pc, query, apiDimensions, dimensionMapping, responseData, rows, call, returned,
          moduleVars>>

\* a runAnalytics call in progress
pipelineVars == <<pc, query, apiDimensions, dimensionMapping, responseData, rows>>

\* a direct call of an exported function: its arguments and what it returned
callVars == <<call, returned, moduleVars>>

(***************************************************************************)
(* Bounds of the model.                                                    *)
(***************************************************************************)
MaxDims == 2

MaxMetrics == 1

MaxRows == 1

\* Dimension names a query may request.
DimNames == {"date", "pagePath", "exitPage", "domain", "userType", "deviceCategory"}

\* Metric names a query may request.
MetricNames == {"sessions"}

(***************************************************************************)
(* JavaScript values.                                                      *)
(***************************************************************************)
Undefined == [type |-> "undefined", chars |-> <<>>, num |-> 0]

Str(s) == [type |-> "string", chars |-> s, num |-> 0]

Num(n) == [type |-> "number", chars |-> <<>>, num |-> n]

NaN == [type |-> "NaN", chars |-> <<>>, num |-> 0]

Null == [type |-> "null", chars |-> <<>>, num |-> 0]

\* A function or object reached through Object.prototype, by member name.
Inherited(name) == [type |-> "object", chars |-> name, num |-> 0]

\* The TypeError of calling a method the receiver does not have
\* (x.toLowerCase is not a function), as the outcome of the call.
TypeError == [type |-> "TypeError", chars |-> <<>>, num |-> 0]

\* !v : undefined, null, the empty string, 0 and NaN are falsy.
Falsy(v) ==
    \/ v.type = "undefined"
    \/ v.type = "null"
    \/ v.type = "NaN"
    \/ v.type = "string" /\ v.chars = <<>>
    \/ v.type = "number" /\ v.num = 0

\* An object without keys: {}
EmptyObject == [k \in {} |-> Undefined]

\* obj[key] = value
Put(obj, key, value) ==
    [k \in (DOMAIN obj) \cup {key} |-> IF k = key THEN value ELSE obj[k]]

\* obj[key], undefined when the key is absent
Get(obj, key) == IF key \in DOMAIN obj THEN obj[key] ELSE Undefined

\* Sequences over S of length at most n.
SeqUpTo(S, n) == UNION {[1..k -> S] : k \in 0..n}

Range(s) == {s[i] : i \in DOMAIN s}

(***************************************************************************)
(* JavaScript string operations on character sequences.                    *)
(***************************************************************************)
UpperLetters ==
    <<"A", "B", "C", "D", "E", "F", "G", "H", "I", "J", "K", "L", "M",
      "N", "O", "P", "Q", "R", "S", "T", "U", "V", "W", "X", "Y", "Z">>

LowerLetters ==
    <<"a", "b", "c", "d", "e", "f", "g", "h", "i", "j", "k", "l", "m",
      "n", "o", "p", "q", "r", "s", "t", "u", "v", "w", "x", "y", "z">>

Digits == <<"0", "1", "2", "3", "4", "5", "6", "7", "8", "9">>

IndexIn(c, table) == CHOOSE i \in DOMAIN table : table[i] = c

ToLowerChar(c) ==
    IF c \in Range(UpperLetters) THEN LowerLetters[IndexIn(c, UpperLetters)] ELSE c

\* String.prototype.toLowerCase
ToLowerCase(s) == [i \in DOMAIN s |-> ToLowerChar(s[i])]

\* \s of a regular expression, and what trim() removes
IsSpace(c) == c \in {" ", "\t"}

\* String.prototype.trim
RECURSIVE TrimLeft(_)
TrimLeft(s) ==
    IF s # <<>> /\ IsSpace(Head(s)) THEN TrimLeft(Tail(s)) ELSE s

RECURSIVE TrimRight(_)
TrimRight(s) ==
    IF s # <<>> /\ IsSpace(s[Len(s)]) THEN TrimRight(SubSeq(s, 1, Len(s) - 1)) ELSE s

Trim(s) == TrimLeft(TrimRight(s))

\* replace(/\s+/g, ' '): every run of white space becomes one space
RECURSIVE CollapseSpaces(_)
CollapseSpaces(s) ==
    IF s = <<>> THEN <<>>
    ELSE IF IsSpace(Head(s))
         THEN <<" ">> \o CollapseSpaces(TrimLeft(s))
         ELSE <<Head(s)>> \o CollapseSpaces(Tail(s))

\* replace(/\s*-\s*.*$/, ''): the leftmost match starts at the white space
\* that precedes the first dash and runs to the end of the string
RemoveFromFirstDash(s) ==
    IF \E i \in DOMAIN s : s[i] = "-"
    THEN LET dash == CHOOSE i \in DOMAIN s :
                        s[i] = "-" /\ \A j \in 1..(i - 1) : s[j] # "-"
         IN TrimRight(SubSeq(s, 1, dash - 1))
    ELSE s

\* parseFloat on strings of digits and letters: the value of the leading
\* digits after leading white space, NaN when there is no leading digit
RECURSIVE DigitsValue(_, _)
DigitsValue(s, acc) ==
    IF s # <<>> /\ Head(s) \in Range(Digits)
    THEN DigitsValue(Tail(s), 10 * acc + (IndexIn(Head(s), Digits) - 1))
    ELSE acc

parseFloat(s) ==
    LET t == TrimLeft(s)
    IN IF t # <<>> /\ Head(t) \in Range(Digits) THEN Num(DigitsValue(t, 0)) ELSE NaN

\* new URL(input, 'https://example.com').hostname for inputs made of
\* letters, digits, '/', '.', '-' and spaces: a path-only input resolves
\* against the base, an input starting with two or more slashes names its
\* own host; [ok |-> FALSE] stands for the TypeError of an invalid URL
RECURSIVE SkipSlashes(_)
SkipSlashes(s) == IF s # <<>> /\ Head(s) = "/" THEN SkipSlashes(Tail(s)) ELSE s

RECURSIVE UpToSlash(_)
UpToSlash(s) ==
    IF s = <<>> \/ Head(s) = "/" THEN <<>> ELSE <<Head(s)>> \o UpToSlash(Tail(s))

BaseHost == <<"e", "x", "a", "m", "p", "l", "e", ".", "c", "o", "m">>

URLHostname(input) ==
    LET t == Trim(input)
    IN IF Len(t) >= 2 /\ t[1] = "/" /\ t[2] = "/"
       THEN LET host == UpToSlash(SkipSlashes(t))
            IN IF host = <<>> \/ \E i \in DOMAIN host : IsSpace(host[i])
               THEN [ok |-> FALSE, hostname |-> <<>>]
               ELSE [ok |-> TRUE, hostname |-> ToLowerCase(host)]
       ELSE [ok |-> TRUE, hostname |-> BaseHost]

(***************************************************************************)
(* config.js: sources.analytics.dimensions                                 *)
(***************************************************************************)
ConfigDimensions ==
    [date |-> "date",
     country |-> "country",
     city |-> "city",
     deviceCategory |-> "deviceCategory",
     operatingSystem |-> "operatingSystem",
     browser |-> "browser",
     source |-> "sessionSource",
     medium |-> "sessionMedium",
     campaign |-> "sessionCampaignName",
     pagePath |-> "pagePath",
     pageTitle |-> "pageTitle",
     landingPage |-> "landingPage",
     exitPage |-> "pagePath",
     userType |-> "newVsReturning",
     trafficSource |-> "sessionDefaultChannelGrouping",
     hour |-> "hour",
     dayOfWeek |-> "dayOfWeek",
     month |-> "month",
     year |-> "year"]

\* analytics.js getSourceDimensionForAPI
getSourceDimensionForAPI(dimension) ==
    IF dimension \in DOMAIN ConfigDimensions
    THEN ConfigDimensions[dimension]
    ELSE dimension

(***************************************************************************)
(* dimension-processors.js                                                 *)
(***************************************************************************)
\* members an object literal ({...}) inherits from Object.prototype:
\* typeMap[key] and categoryMap[key] find them as well as the own keys
ObjectPrototype ==
    {<<"c", "o", "n", "s", "t", "r", "u", "c", "t", "o", "r">>,
     <<"t", "o", "S", "t", "r", "i", "n", "g">>,
     <<"v", "a", "l", "u", "e", "O", "f">>}

\* processDomain without the if (!pagePath) return '' guard
processDomainNoGuard(row, pagePath) ==
    LET url == URLHostname(IF pagePath.type = "string" THEN pagePath.chars
                           ELSE <<"u", "n", "d", "e", "f", "i", "n", "e", "d">>)
    IN IF url.ok THEN Str(url.hostname) ELSE Str(<<>>)

\* a value that is not a string is converted to one by new URL: the text of
\* an object or function is a path relative to the base
processDomain(row, pagePath) ==
    IF Falsy(pagePath) THEN Str(<<>>)
    ELSE LET url == URLHostname(IF pagePath.type = "string" THEN pagePath.chars
                                ELSE <<"o", "b", "j", "e", "c", "t">>)
         IN IF url.ok THEN Str(url.hostname) ELSE Str(<<>>)

processPageTitle(row, pageTitle) ==
    IF Falsy(pageTitle) THEN Str(<<>>)
    ELSE IF pageTitle.type # "string" THEN TypeError
    ELSE Str(Trim(CollapseSpaces(RemoveFromFirstDash(pageTitle.chars))))

processUserType(row, userType) ==
    IF Falsy(userType) THEN Str(<<>>)
    ELSE IF userType.type # "string" THEN TypeError
    ELSE LET key == ToLowerCase(userType.chars)
         IN IF key = <<"n", "e", "w">> THEN Str(<<"N", "e", "w", " ", "U", "s", "e", "r">>)
            ELSE IF key = <<"r", "e", "t", "u", "r", "n", "i", "n", "g">>
                 THEN Str(<<"R", "e", "t", "u", "r", "n", "i", "n", "g", " ", "U", "s", "e", "r">>)
                 ELSE IF key \in ObjectPrototype THEN Inherited(key)
                      ELSE userType

processDeviceCategory(row, deviceCategory) ==
    IF Falsy(deviceCategory) THEN Str(<<>>)
    ELSE IF deviceCategory.type # "string" THEN TypeError
    ELSE LET key == ToLowerCase(deviceCategory.chars)
         IN IF key = <<"d", "e", "s", "k", "t", "o", "p">>
            THEN Str(<<"D", "e", "s", "k", "t", "o", "p">>)
            ELSE IF key = <<"m", "o", "b", "i", "l", "e">>
                 THEN Str(<<"M", "o", "b", "i", "l", "e">>)
                 ELSE IF key = <<"t", "a", "b", "l", "e", "t">>
                      THEN Str(<<"T", "a", "b", "l", "e", "t">>)
                      ELSE IF key \in ObjectPrototype THEN Inherited(key)
                           ELSE deviceCategory

\* the registry: dimension name -> processor
DIMENSION_PROCESSORS ==
    [domain |-> "processDomain",
     pageTitle |-> "processPageTitle",
     userType |-> "processUserType",
     deviceCategory |-> "processDeviceCategory"]

\* the call processor(row, sourceValue) of processRow
CallProcessor(processor, row, sourceValue) ==
    CASE processor = "processDomain" -> processDomain(row, sourceValue)
      [] processor = "processPageTitle" -> processPageTitle(row, sourceValue)
      [] processor = "processUserType" -> processUserType(row, sourceValue)
      [] processor = "processDeviceCategory" -> processDeviceCategory(row, sourceValue)

\* sourceMap of getSourceValue
sourceMap ==
    [domain |-> "pagePath",
     pageTitle |-> "pageTitle",
     userType |-> "userType",
     deviceCategory |-> "deviceCategory"]

getSourceValue(dimension, row) ==
    IF dimension \in DOMAIN sourceMap
    THEN Get(row, sourceMap[dimension])
    ELSE Str(<<>>)

\* one iteration that reads the copy being filled in place of the input row
ProcessDimensionFromCopy(processedRow, row, dimension) ==
    IF dimension \in DOMAIN DIMENSION_PROCESSORS
    THEN Put(processedRow, dimension,
             CallProcessor(DIMENSION_PROCESSORS[dimension], processedRow,
                           getSourceValue(dimension, processedRow)))
    ELSE processedRow

\* one iteration of the forEach of processRow: the processor reads the
\* input row, the result goes to the copy
ProcessDimension(processedRow, row, dimension) ==
    IF dimension \in DOMAIN DIMENSION_PROCESSORS
    THEN Put(processedRow, dimension,
             CallProcessor(DIMENSION_PROCESSORS[dimension], row, getSourceValue(dimension, row)))
    ELSE processedRow

\* a processor threw: the exception leaves processRow, carried here by the
\* key it was meant for
Threw(processedRow) ==
    \E key \in DOMAIN processedRow : processedRow[key] = TypeError

RECURSIVE ProcessFrom(_, _, _, _)
ProcessFrom(processedRow, row, dimensions, i) ==
    IF i > Len(dimensions) \/ Threw(processedRow) THEN processedRow
    ELSE ProcessFrom(ProcessDimension(processedRow, row, dimensions[i]), row, dimensions, i + 1)

processRow(row, dimensions) == ProcessFrom(row, row, dimensions, 1)

(***************************************************************************)
(* runAnalytics, lines 44-54: the request dimension resolver.              *)
(* A state of the forEach loop is [api, map].                              *)
(***************************************************************************)
\* ResolveStep without the has() test: every requested dimension is pushed
ResolveStepNoDedup(acc, dim) ==
    LET sourceDim == getSourceDimensionForAPI(dim)
        bucket == IF sourceDim \in DOMAIN acc.map THEN acc.map[sourceDim] ELSE <<>>
    IN [api |-> Append(acc.api, sourceDim),
        map |-> [s \in (DOMAIN acc.map) \cup {sourceDim} |->
                    IF s = sourceDim THEN Append(bucket, dim) ELSE acc.map[s]]]

\* ResolveStep with unshift in place of push
ResolveStepUnshift(acc, dim) ==
    LET sourceDim == getSourceDimensionForAPI(dim)
        seen == sourceDim \in DOMAIN acc.map
        bucket == IF seen THEN acc.map[sourceDim] ELSE <<>>
    IN [api |-> IF seen THEN acc.api ELSE <<sourceDim>> \o acc.api,
        map |-> [s \in (DOMAIN acc.map) \cup {sourceDim} |->
                    IF s = sourceDim THEN Append(bucket, dim) ELSE acc.map[s]]]

\* ResolveStep that records a user dimension only when its source is new
ResolveStepFirstOnly(acc, dim) ==
    LET sourceDim == getSourceDimensionForAPI(dim)
        seen == sourceDim \in DOMAIN acc.map
    IN [api |-> IF seen THEN acc.api ELSE Append(acc.api, sourceDim),
        map |-> [s \in (DOMAIN acc.map) \cup {sourceDim} |->
                    IF s = sourceDim /\ ~seen THEN <<dim>> ELSE acc.map[s]]]

\* ResolveStep that pushes the source again for a name requested before
ResolveStepRepeatPushed(acc, dim) ==
    LET sourceDim == getSourceDimensionForAPI(dim)
        seen == sourceDim \in DOMAIN acc.map
        bucket == IF seen THEN acc.map[sourceDim] ELSE <<>>
        api == IF seen /\ dim \notin Range(bucket) THEN acc.api ELSE Append(acc.api, sourceDim)
    IN [api |-> api,
        map |-> [s \in (DOMAIN acc.map) \cup {sourceDim} |->
                    IF s = sourceDim THEN Append(bucket, dim) ELSE acc.map[s]]]

ResolveStep(acc, dim) ==
    LET sourceDim == getSourceDimensionForAPI(dim)
        seen == sourceDim \in DOMAIN acc.map
        api == IF seen THEN acc.api ELSE Append(acc.api, sourceDim)
        bucket == IF seen THEN acc.map[sourceDim] ELSE <<>>
    IN [api |-> api,
        map |-> [s \in (DOMAIN acc.map) \cup {sourceDim} |->
                    IF s = sourceDim THEN Append(bucket, dim) ELSE acc.map[s]]]

RECURSIVE ResolveFrom(_, _, _)
ResolveFrom(acc, dims, i) ==
    IF i > Len(dims) THEN acc
    ELSE ResolveFrom(ResolveStep(acc, dims[i]), dims, i + 1)

ResolveDimensions(dims) ==
    ResolveFrom([api |-> <<>>, map |-> [s \in {} |-> <<>>]], dims, 1)

(***************************************************************************)
(* runAnalytics, lines 106-145: the response row builder.                  *)
(* An array that may be missing is [present, items]; an element that may   *)
(* lack its value field carries Undefined as value.                        *)
(***************************************************************************)
\* DimensionValueAt without the || '' default
DimensionValueAtNoDefault(items, index) ==
    IF index \in DOMAIN items THEN items[index].value ELSE Undefined

\* row.dimensionValues[dimensionIndex]?.value || ''
DimensionValueAt(items, index) ==
    LET value == IF index \in DOMAIN items THEN items[index].value ELSE Undefined
    IN IF Falsy(value) THEN Str(<<>>) ELSE value

\* the inner forEach over the user dimensions of one API dimension
RECURSIVE SetUserDimensions(_, _, _, _)
SetUserDimensions(result, userDimensions, value, j) ==
    IF j > Len(userDimensions) THEN result
    ELSE LET dimension == userDimensions[j]
             sourceDim == getSourceDimensionForAPI(dimension)
         IN SetUserDimensions(Put(Put(result, sourceDim, value), dimension, value),
                              userDimensions, value, j + 1)

\* the outer forEach over apiDimensions; dimensionIndex runs with it
RECURSIVE AddDimensions(_, _, _, _, _)
AddDimensions(result, api, mapping, items, dimensionIndex) ==
    IF dimensionIndex > Len(api) THEN result
    ELSE AddDimensions(
            SetUserDimensions(result, mapping[api[dimensionIndex]],
                              DimensionValueAt(items, dimensionIndex), 1),
            api, mapping, items, dimensionIndex + 1)

\* MetricValueAt without the value ? ... : 0 test
MetricValueAtAlwaysParse(items, index) ==
    LET value == IF index \in DOMAIN items THEN items[index].value ELSE Undefined
    IN parseFloat(value.chars)

\* value ? parseFloat(value) : 0
MetricValueAt(items, index) ==
    LET value == IF index \in DOMAIN items THEN items[index].value ELSE Undefined
    IN IF Falsy(value) THEN Num(0) ELSE parseFloat(value.chars)

RECURSIVE AddMetrics(_, _, _, _)
AddMetrics(result, metrics, items, index) ==
    IF index > Len(metrics) THEN result
    ELSE AddMetrics(Put(result, metrics[index], MetricValueAt(items, index)),
                    metrics, items, index + 1)

BuildRow(row, q, api, mapping) ==
    LET withDimensions ==
            IF row.dimensionValues.present
            THEN AddDimensions(EmptyObject, api, mapping, row.dimensionValues.items, 1)
            ELSE EmptyObject
    IN IF row.metricValues.present
       THEN AddMetrics(withDimensions, q.metrics, row.metricValues.items, 1)
       ELSE withDimensions

(***************************************************************************)
(* runAnalytics, lines 150-171: the column projector.                      *)
(***************************************************************************)
SourceColumns(dimensions) ==
    {getSourceDimensionForAPI(dimensions[i]) :
        i \in {j \in DOMAIN dimensions :
                  getSourceDimensionForAPI(dimensions[j]) # dimensions[j]}}

\* FilterRow that hides the source of every requested dimension
FilterRowHideAllSources(row, dimensions) ==
    [key \in (DOMAIN row) \ {getSourceDimensionForAPI(dimensions[i]) : i \in DOMAIN dimensions} |->
        row[key]]

FilterRow(row, dimensions) ==
    [key \in (DOMAIN row) \ SourceColumns(dimensions) |-> row[key]]

(***************************************************************************)
(* State machine of one runAnalytics call.                                 *)
(***************************************************************************)
Queries ==
    [dimensions : SeqUpTo(DimNames, MaxDims), metrics : SeqUpTo(MetricNames, MaxMetrics)]

\* The values the reporting API returns for a dimension it was asked for.
ApiValue(source) ==
    CASE source = "date" -> <<"2", "0", "2", "5">>
      [] source = "pagePath" -> <<"/", "p">>
      [] source = "newVsReturning" -> <<"n", "e", "w">>
      [] source = "deviceCategory" -> <<"m", "o", "b", "i", "l", "e">>
      [] OTHER -> <<"/", "d">>

\* The strings the reporting API returns as a metric's value.
MetricStrings == {<<"4", "2">>}

Present(items) == [present |-> TRUE, items |-> items]

Missing == [present |-> FALSE, items |-> <<>>]

\* dimensionValues of a row: missing, aligned to the API dimension list, or
\* one element short of it
DimensionValuesFor(api) ==
    {Missing} \cup
    {Present([i \in 1..k |-> [value |-> Str(ApiValue(api[i]))]]) :
        k \in {Len(api)} \cup ({Len(api) - 1} \cap Nat)}

\* metricValues of a row: missing, empty, or aligned to the metric list, an
\* element possibly without its value field
MetricValuesFor(metrics) ==
    {Missing, Present(<<>>)} \cup
    {Present(items) :
        items \in [1..Len(metrics) ->
                      {[value |-> Str(m)] : m \in MetricStrings} \cup {[value |-> Undefined]}]}

ApiRows(api, metrics) ==
    [dimensionValues : DimensionValuesFor(api), metricValues : MetricValuesFor(metrics)]

\* a row both of whose arrays are present, complete and carry values
WellFormed(row, api, metrics) ==
    /\ row.dimensionValues.present
    /\ Len(row.dimensionValues.items) = Len(api)
    /\ row.metricValues.present
    /\ Len(row.metricValues.items) = Len(metrics)

\* no direct call is under way
NoCall == [fn |-> "none"]

\* let currentFilters = { queryFilters: [], compareFilters: [] }
NoFilters == [queryFilters |-> <<>>, compareFilters |-> <<>>]

\* an environment variable that is not set
Unset == Undefined

\* the state outside runAnalytics when the program starts: no filter, nothing
\* shown, GA_PROPERTY_ID and USER_ID not set, no request, no OAuth callback
\* awaited
ModuleInit ==
    /\ currentFilters = NoFilters
    /\ shown = <<>>
    /\ env = [GA_PROPERTY_ID |-> Unset, USER_ID |-> Unset]
    /\ requests = <<>>
    /\ promise = "none"
    /\ server = "none"
    /\ timer = "none"

Init ==
    /\ pc = "start"
    /\ query \in Queries
    /\ apiDimensions = <<>>
    /\ dimensionMapping = [s \in {} |-> <<>>]
    /\ responseData = <<>>
    /\ rows = <<>>
    /\ call = NoCall
    /\ returned = <<>>
    /\ ModuleInit

\* lines 44-54: resolve the requested dimensions
Resolve ==
    /\ pc = "start"
    /\ LET r == ResolveDimensions(query.dimensions)
       IN /\ apiDimensions' = r.api
          /\ dimensionMapping' = r.map
    /\ pc' = "request"
    /\ UNCHANGED <<query, responseData, rows, call, returned, moduleVars>>

\* lines 83-103: the report arrives
Fetch ==
    /\ pc = "request"
    /\ responseData' \in SeqUpTo(ApiRows(apiDimensions, query.metrics), MaxRows)
    /\ pc' = "response"
    /\ UNCHANGED <<query, apiDimensions, dimensionMapping, rows, call, returned, moduleVars>>

\* lines 98-101: the API answers with an error status, runAnalytics throws
FetchFails ==
    /\ pc = "request"
    /\ pc' = "error"
    /\ UNCHANGED <<query, apiDimensions, dimensionMapping, responseData, rows, call, returned, moduleVars>>

\* lines 106-145: response rows to objects
Build ==
    /\ pc = "response"
    /\ rows' = [i \in DOMAIN responseData |->
                   BuildRow(responseData[i], query, apiDimensions, dimensionMapping)]
    /\ pc' = "built"
    /\ UNCHANGED <<query, apiDimensions, dimensionMapping, responseData, call, returned, moduleVars>>

\* line 148: apply the dimension processors
Transform ==
    /\ pc = "built"
    /\ rows' = [i \in DOMAIN rows |-> processRow(rows[i], query.dimensions)]
    /\ pc' = "transformed"
    /\ UNCHANGED <<query, apiDimensions, dimensionMapping, responseData, call, returned, moduleVars>>

\* lines 150-171: hide the source columns
Project ==
    /\ pc = "transformed"
    /\ rows' = [i \in DOMAIN rows |-> FilterRow(rows[i], query.dimensions)]
    /\ pc' = "projected"
    /\ UNCHANGED <<query, apiDimensions, dimensionMapping, responseData, call, returned, moduleVars>>

\* line 191: return rows (a query without orderBys is not sorted)
Return ==
    /\ pc = "projected"
    /\ pc' = "done"
    /\ UNCHANGED <<query, apiDimensions, dimensionMapping, responseData, rows, call, returned, moduleVars>>

Next ==
    \/ Resolve
    \/ Fetch
    \/ FetchFails
    \/ Build
    \/ Transform
    \/ Project
    \/ Return

Spec == Init /\ [][Next]_vars

(***************************************************************************)
(* runAnalytics over the metric values an API row may carry: the same      *)
(* pipeline, the response drawn from a richer set of metric strings.       *)
(***************************************************************************)
\* strings of a metric's value field: empty, not a number, a number followed
\* by a letter, numbers, a number after white space
MetricInputs ==
    {<<>>, <<"x">>, <<"4", "x">>, <<"4", "2">>, <<" ", "7">>, <<"0">>}

MetricQueryDimensions == {<<>>, <<"date">>}

\* metricValues of a row: missing, empty, or aligned to the metric list, each
\* element with one of MetricInputs as value or without a value field
MetricValuesOver(metrics) ==
    {Missing, Present(<<>>)} \cup
    {Present(items) :
        items \in [1..Len(metrics) ->
                      {[value |-> Str(m)] : m \in MetricInputs} \cup {[value |-> Undefined]}]}

MetricRows(api, metrics) ==
    [dimensionValues : {Present([i \in DOMAIN api |-> [value |-> Str(ApiValue(api[i]))]])},
     metricValues : MetricValuesOver(metrics)]

InitMetrics ==
    /\ pc = "start"
    /\ query \in [dimensions : MetricQueryDimensions,
                  metrics : SeqUpTo(MetricNames, MaxMetrics)]
    /\ apiDimensions = <<>>
    /\ dimensionMapping = [s \in {} |-> <<>>]
    /\ responseData = <<>>
    /\ rows = <<>>
    /\ call = NoCall
    /\ returned = <<>>
    /\ ModuleInit

\* lines 83-103: the report arrives
FetchMetrics ==
    /\ pc = "request"
    /\ responseData' \in SeqUpTo(MetricRows(apiDimensions, query.metrics), MaxRows)
    /\ pc' = "response"
    /\ UNCHANGED <<query, apiDimensions, dimensionMapping, rows, call, returned, moduleVars>>

NextMetrics ==
    \/ Resolve
    \/ FetchMetrics
    \/ FetchFails
    \/ Build
    \/ Transform
    \/ Project
    \/ Return

SpecMetrics == InitMetrics /\ [][NextMetrics]_vars

(***************************************************************************)
(* dimension-processors.js called directly: one processor on one source    *)
(* value, and processRow on an Expanded Row, then again on its own output. *)
(***************************************************************************)
MaxTitleLen == 9

MaxCallDims == 2

ToUpperChar(c) ==
    IF c \in Range(LowerLetters) THEN UpperLetters[IndexIn(c, LowerLetters)] ELSE c

\* every spelling of a word in upper and lower case letters
CaseVariants(word) ==
    {[i \in DOMAIN word |-> IF i \in upper THEN ToUpperChar(word[i]) ELSE word[i]] :
        upper \in SUBSET DOMAIN word}

\* page titles: words, spaces and dashes
TitleChars == {"a", " ", "-"}

Titles == SeqUpTo(TitleChars, MaxTitleLen)

DeviceCategories ==
    CaseVariants(<<"d", "e", "s", "k", "t", "o", "p">>)
        \cup CaseVariants(<<"m", "o", "b", "i", "l", "e">>)
        \cup CaseVariants(<<"t", "a", "b", "l", "e", "t">>)
        \cup {<<"s", "m", "a", "r", "t", "t", "v">>, <<"t", "v">>,
              <<"c", "o", "n", "s", "t", "r", "u", "c", "t", "o", "r">>}

UserTypes ==
    CaseVariants(<<"n", "e", "w">>)
        \cup CaseVariants(<<"r", "e", "t", "u", "r", "n", "i", "n", "g">>)
        \cup {<<"x">>, <<"c", "o", "n", "s", "t", "r", "u", "c", "t", "o", "r">>}

PagePaths ==
    {<<"/", "p">>, <<"p">>, <<"/", "/", "h", "/", "x">>, <<"/", "/", "H">>, <<"/", "/">>}

\* the source values a processor is called with: the strings of its
\* dimension, the empty string, null and undefined
ProcessorInputs(processor) ==
    {Str(<<>>), Null, Undefined} \cup
    {Str(chars) : chars \in
        CASE processor = "processDomain" -> PagePaths
          [] processor = "processPageTitle" -> Titles
          [] processor = "processUserType" -> UserTypes
          [] processor = "processDeviceCategory" -> DeviceCategories}

\* the values the API returns for a source in the rows processRow is given
RowInputs(source) ==
    CASE source = "pageTitle" ->
            {<<"a", " ", "-", " ", "a">>, <<"a", "-", "a", " ", "-", " ", "a">>,
             <<" ", "a", " ", " ", "a", " ">>}
      [] source = "newVsReturning" ->
            {<<"n", "e", "w">>, <<"R", "e", "t", "u", "r", "n", "i", "n", "g">>,
             <<"c", "o", "n", "s", "t", "r", "u", "c", "t", "o", "r">>}
      [] source = "deviceCategory" ->
            {<<"m", "o", "b", "i", "l", "e">>, <<"s", "m", "a", "r", "t", "t", "v">>,
             <<"c", "o", "n", "s", "t", "r", "u", "c", "t", "o", "r">>}
      [] OTHER -> {<<"/", "p">>, <<"/", "/", "h", "/", "x">>}

ProcessorDims == DOMAIN DIMENSION_PROCESSORS

\* the Expanded Rows runAnalytics builds for a dimension list
ExpandedRows(dimensions) ==
    LET resolved == ResolveDimensions(dimensions)
        api == resolved.api
        values == UNION {RowInputs(api[i]) : i \in DOMAIN api}
        aligned == {f \in [DOMAIN api -> values] : \A i \in DOMAIN api : f[i] \in RowInputs(api[i])}
    IN {BuildRow([dimensionValues |-> dv, metricValues |-> Missing],
                 [dimensions |-> dimensions, metrics |-> <<>>], api, resolved.map) :
           dv \in {Missing} \cup {Present([i \in DOMAIN api |-> [value |-> Str(f[i])]]) : f \in aligned}}

InitTransforms ==
    /\ pc = "idle"
    /\ query = [dimensions |-> <<>>, metrics |-> <<>>]
    /\ apiDimensions = <<>>
    /\ dimensionMapping = [s \in {} |-> <<>>]
    /\ responseData = <<>>
    /\ rows = <<>>
    /\ call = NoCall
    /\ returned = <<>>
    /\ ModuleInit

\* processor(row, sourceValue)
CallProcessorOnce ==
    /\ pc = "idle"
    /\ \E processor \in Range(DIMENSION_PROCESSORS) :
           \E sourceValue \in ProcessorInputs(processor) :
               /\ call' = [fn |-> processor, arg |-> sourceValue]
               /\ returned' = CallProcessor(processor, EmptyObject, sourceValue)
    /\ pc' = "returned"
    /\ UNCHANGED <<query, apiDimensions, dimensionMapping, responseData, rows, moduleVars>>

\* processRow(row, dimensions)
CallProcessRow ==
    /\ pc = "idle"
    /\ \E dimensions \in SeqUpTo(ProcessorDims, MaxCallDims) :
           \E row \in ExpandedRows(dimensions) :
               /\ call' = [fn |-> "processRow", row |-> row, dimensions |-> dimensions]
               /\ returned' = processRow(row, dimensions)
    /\ pc' = "returned"
    /\ UNCHANGED <<query, apiDimensions, dimensionMapping, responseData, rows, moduleVars>>

\* processRow(processRow(row, dimensions), dimensions)
CallProcessRowAgain ==
    /\ pc = "returned"
    /\ call.fn = "processRow"
    /\ call' = [fn |-> "processRowAgain", row |-> returned, dimensions |-> call.dimensions]
    /\ returned' = processRow(returned, call.dimensions)
    /\ pc' = "again"
    /\ UNCHANGED <<query, apiDimensions, dimensionMapping, responseData, rows, moduleVars>>

NextTransforms ==
    \/ CallProcessorOnce
    \/ CallProcessRow
    \/ CallProcessRowAgain

SpecTransforms == InitTransforms /\ [][NextTransforms]_vars

(***************************************************************************)
(* renderers.js applySorting(rows, sortingConfig), the columns format.     *)
(***************************************************************************)
MaxSortRows == 3

MaxSortItems == 2

\* UTF-16 code unit order of the characters used
CodeUnitOrder ==
    <<"\t", " ", "-", ".", "/">> \o Digits \o UpperLetters \o LowerLetters

\* s < t on two strings
RECURSIVE StringLess(_, _)
StringLess(s, t) ==
    IF t = <<>> THEN FALSE
    ELSE IF s = <<>> THEN TRUE
    ELSE IF Head(s) = Head(t) THEN StringLess(Tail(s), Tail(t))
    ELSE IndexIn(Head(s), CodeUnitOrder) < IndexIn(Head(t), CodeUnitOrder)

\* valueA < valueB on two numbers or two strings; a comparison with
\* undefined or NaN is false
JsLess(valueA, valueB) ==
    IF valueA.type = "number" /\ valueB.type = "number" THEN valueA.num < valueB.num
    ELSE IF valueA.type = "string" /\ valueB.type = "string"
         THEN StringLess(valueA.chars, valueB.chars)
         ELSE FALSE

\* an element of sortingConfig.columns: the string 'none' or a
\* {column, direction} object
NoneItem == [text |-> "none", column |-> "", direction |-> ""]

SortItem(column, direction) == [text |-> "", column |-> column, direction |-> direction]

\* the filter that keeps the actual sort items
IsSortItem(item) ==
    item.text = "" /\ item.column # "" /\ item.direction # ""

\* the comparator handed to rows.sort: the first sort item that tells the
\* rows apart decides
RECURSIVE CompareRows(_, _, _, _)
CompareRows(a, b, sortItems, i) ==
    IF i > Len(sortItems) THEN 0
    ELSE LET valueA == Get(a, sortItems[i].column)
             valueB == Get(b, sortItems[i].column)
             ascending == IF JsLess(valueA, valueB) THEN -1
                          ELSE IF JsLess(valueB, valueA) THEN 1 ELSE 0
             result == IF sortItems[i].direction = "desc" THEN -ascending ELSE ascending
         IN IF result # 0 THEN result ELSE CompareRows(a, b, sortItems, i + 1)

\* Array.prototype.sort needs a consistent comparator: a total preorder of
\* the rows. The comparator reads only the sort columns, so one row stands
\* for all rows with the same values in them.
ConsistentComparator(input, sortItems) ==
    LET cmp(a, b) == CompareRows(a, b, sortItems, 1)
        keys(row) == [k \in DOMAIN sortItems |-> Get(row, sortItems[k].column)]
        S == {input[CHOOSE i \in DOMAIN input : keys(input[i]) = t] :
                 t \in {keys(input[i]) : i \in DOMAIN input}}
    IN \A a, b, c \in S :
           /\ (cmp(a, b) = 0 /\ cmp(b, c) = 0) => cmp(a, c) = 0
           /\ (cmp(a, b) < 0 /\ cmp(b, c) < 0) => cmp(a, c) < 0
           /\ (cmp(a, b) < 0) <=> (cmp(b, a) > 0)

\* a stable sort: a row's place is after the rows the comparator puts before
\* it and after the earlier rows it compares equal to
StableSort(input, sortItems) ==
    LET before(j, i) ==
            LET c == CompareRows(input[j], input[i], sortItems, 1)
            IN c < 0 \/ (c = 0 /\ j < i)
        places == {<<1 + Cardinality({j \in DOMAIN input : before(j, i)}), i>> :
                      i \in DOMAIN input}
    IN [k \in DOMAIN input |-> input[(CHOOSE p \in places : p[1] = k)[2]]]

Rearrangements(input) ==
    {[i \in DOMAIN input |-> input[p[i]]] :
        p \in {q \in [DOMAIN input -> DOMAIN input] :
                  \A i, j \in DOMAIN input : q[i] = q[j] => i = j}}

\* rows.sort(comparator): sorted and stable when the comparator is
\* consistent, else an implementation-defined order of the same rows
ArraySort(input, sortItems) ==
    IF ConsistentComparator(input, sortItems)
    THEN {StableSort(input, sortItems)}
    ELSE Rearrangements(input)

\* what applySorting may return
applySorting(input, sortingConfig) ==
    IF NoneItem \in Range(sortingConfig.columns) \/ Len(sortingConfig.columns) = 0
    THEN {input}
    ELSE LET sortItems == SelectSeq(sortingConfig.columns, IsSortItem)
         IN IF Len(sortItems) = 0 THEN {input} ELSE ArraySort(input, sortItems)

\* Final Rows handed to the sorter: a dimension, a metric (a number or the
\* NaN of an unparseable value) and n, the row's place in the input
SortableRows ==
    {[i \in DOMAIN f |-> [date |-> f[i].date, sessions |-> f[i].sessions, n |-> Num(i)]] :
        f \in SeqUpTo([date : {Str(<<"a">>), Str(<<"b">>)},
                       sessions : {Num(1), Num(2), NaN}], MaxSortRows)}

SortingConfigs ==
    {[columns |-> items] :
        items \in SeqUpTo({SortItem(column, direction) :
                              column \in {"date", "sessions"}, direction \in {"asc", "desc"}},
                          MaxSortItems)
                  \cup {<<NoneItem>>}}

InitSorting ==
    /\ pc = "idle"
    /\ query = [dimensions |-> <<>>, metrics |-> <<>>]
    /\ apiDimensions = <<>>
    /\ dimensionMapping = [s \in {} |-> <<>>]
    /\ responseData = <<>>
    /\ rows = <<>>
    /\ call = NoCall
    /\ returned = <<>>
    /\ ModuleInit

\* applySorting(rows, sortingConfig)
CallApplySorting ==
    /\ pc = "idle"
    /\ \E input \in SortableRows, sortingConfig \in SortingConfigs :
           /\ call' = [fn |-> "applySorting", rows |-> input, sortingConfig |-> sortingConfig]
           /\ returned' \in applySorting(input, sortingConfig)
    /\ pc' = "sorted"
    /\ UNCHANGED <<query, apiDimensions, dimensionMapping, responseData, rows, moduleVars>>

NextSorting == CallApplySorting

SpecSorting == InitSorting /\ [][NextSorting]_vars

(***************************************************************************)
(* runAnalytics, lines 175-189: client-side sorting by query.orderBys.     *)
(***************************************************************************)
MaxOrderBys == 2

MaxOrderRows == 2

\* ToNumber of an operand of the - operator: a string of digits is its
\* value, the empty string 0, any other string NaN
ToNumber(v) ==
    IF v.type = "number" THEN v
    ELSE IF v.type = "string"
         THEN IF v.chars = <<>> THEN Num(0)
              ELSE IF \A i \in DOMAIN v.chars : v.chars[i] \in Range(Digits)
                   THEN Num(DigitsValue(v.chars, 0))
                   ELSE NaN
         ELSE NaN

\* a[fieldName] || 0
OrZero(v) == IF Falsy(v) THEN Num(0) ELSE v

\* the sign of x - y as Array.prototype.sort reads it: a NaN result counts
\* as 0
SignOfDifference(x, y) ==
    LET nx == ToNumber(x)
        ny == ToNumber(y)
    IN IF nx.type # "number" \/ ny.type # "number" THEN 0
       ELSE IF nx.num < ny.num THEN -1
            ELSE IF nx.num > ny.num THEN 1 ELSE 0

\* an element of query.orderBys
OrderByMetric(metric, desc) == [metric |-> metric, dimension |-> "", desc |-> desc]

OrderByDimension(dimension, desc) == [metric |-> "", dimension |-> dimension, desc |-> desc]

\* the comparator of lines 177-187
RECURSIVE CompareByOrderBys(_, _, _, _)
CompareByOrderBys(a, b, orderBys, i) ==
    IF i > Len(orderBys) THEN 0
    ELSE LET orderBy == orderBys[i]
             fieldName == IF orderBy.metric # "" THEN orderBy.metric ELSE orderBy.dimension
             aVal == OrZero(Get(a, fieldName))
             bVal == OrZero(Get(b, fieldName))
         IN IF aVal # bVal
            THEN IF orderBy.desc THEN SignOfDifference(bVal, aVal)
                 ELSE SignOfDifference(aVal, bVal)
            ELSE CompareByOrderBys(a, b, orderBys, i + 1)

ConsistentOrderBys(input, orderBys) ==
    LET cmp(a, b) == CompareByOrderBys(a, b, orderBys, 1)
        S == Range(input)
    IN \A a, b, c \in S :
           /\ (cmp(a, b) = 0 /\ cmp(b, c) = 0) => cmp(a, c) = 0
           /\ (cmp(a, b) < 0 /\ cmp(b, c) < 0) => cmp(a, c) < 0
           /\ (cmp(a, b) < 0) <=> (cmp(b, a) > 0)

RECURSIVE InsertByOrderBys(_, _, _)
InsertByOrderBys(sorted, row, orderBys) ==
    IF sorted # <<>> /\ CompareByOrderBys(row, sorted[Len(sorted)], orderBys, 1) < 0
    THEN Append(InsertByOrderBys(SubSeq(sorted, 1, Len(sorted) - 1), row, orderBys),
                sorted[Len(sorted)])
    ELSE Append(sorted, row)

RECURSIVE StableSortByOrderBys(_, _, _)
StableSortByOrderBys(input, orderBys, n) ==
    IF n = 0 THEN <<>>
    ELSE InsertByOrderBys(StableSortByOrderBys(input, orderBys, n - 1), input[n], orderBys)

\* rows.sort(...) of line 177: what it may leave in rows
SortByOrderBys(input, orderBys) ==
    IF ConsistentOrderBys(input, orderBys)
    THEN {StableSortByOrderBys(input, orderBys, Len(input))}
    ELSE Rearrangements(input)

OrderBys ==
    {OrderByMetric("sessions", desc) : desc \in BOOLEAN}
        \cup {OrderByDimension("country", desc) : desc \in BOOLEAN}

\* rows of a report by country: both arrays present and complete
CountryRows ==
    {[dimensionValues |-> Present(<<[value |-> Str(country)]>>),
      metricValues |-> Present(<<[value |-> Str(sessions)]>>)] :
        country \in {<<"C", "A">>, <<"U", "S">>}, sessions \in {<<"1">>, <<"2">>}}

InitOrderBy ==
    /\ pc = "start"
    /\ query \in [dimensions : {<<"country">>}, metrics : {<<"sessions">>},
                  orderBys : SeqUpTo(OrderBys, MaxOrderBys)]
    /\ apiDimensions = <<>>
    /\ dimensionMapping = [s \in {} |-> <<>>]
    /\ responseData = <<>>
    /\ rows = <<>>
    /\ call = NoCall
    /\ returned = <<>>
    /\ ModuleInit

\* lines 83-103: the report arrives
FetchOrderBy ==
    /\ pc = "request"
    /\ responseData' \in SeqUpTo(CountryRows, MaxOrderRows)
    /\ pc' = "response"
    /\ UNCHANGED <<query, apiDimensions, dimensionMapping, rows, call, returned, moduleVars>>

\* lines 175-191: sort by query.orderBys when there are any, return rows
SortAndReturn ==
    /\ pc = "projected"
    /\ rows' \in (IF Len(query.orderBys) > 0 THEN SortByOrderBys(rows, query.orderBys)
                  ELSE {rows})
    /\ pc' = "done"
    /\ UNCHANGED <<query, apiDimensions, dimensionMapping, responseData, call, returned, moduleVars>>

NextOrderBy ==
    \/ Resolve
    \/ FetchOrderBy
    \/ FetchFails
    \/ Build
    \/ Transform
    \/ Project
    \/ SortAndReturn

SpecOrderBy == InitOrderBy /\ [][NextOrderBy]_vars

(***************************************************************************)
(* renderers.js: filters, renderOutput and table pagination.               *)
(***************************************************************************)
rowsPerPage == 50

MaxPages == 3

MaxFilters == 2

\* String(n) for a natural number
RECURSIVE NumberToString(_)
NumberToString(n) ==
    IF n < 10 THEN <<Digits[n + 1]>>
    ELSE NumberToString(n \div 10) \o <<Digits[(n % 10) + 1]>>

\* String(row[field] || '')
StringOrEmpty(v) ==
    IF Falsy(v) THEN <<>>
    ELSE IF v.type = "number" THEN NumberToString(v.num) ELSE v.chars

\* String.prototype.includes
Includes(s, t) ==
    \E i \in 0..(Len(s) - Len(t)) : SubSeq(s, i + 1, i + Len(t)) = t

\* the predicate of applyQueryFilter's rows.filter
QueryFilterKeeps(row, filter) ==
    LET fieldValue == ToLowerCase(StringOrEmpty(Get(row, filter.field)))
        filterValue == ToLowerCase(filter.value)
    IN CASE filter.operator = "=" -> fieldValue = filterValue
         [] filter.operator = "*" -> Includes(fieldValue, filterValue)
         [] filter.operator = "<>" -> fieldValue # filterValue
         [] filter.operator = "<*>" -> ~Includes(fieldValue, filterValue)
         [] OTHER -> TRUE

\* the predicate of applyCompareFilter's rows.filter
CompareFilterKeeps(row, filter) ==
    LET fieldValue == IF Get(row, filter.field).type = "undefined" THEN NaN
                      ELSE ToNumber(Get(row, filter.field))
        filterValue == ToNumber(Str(filter.value))
    IN IF fieldValue.type # "number" \/ filterValue.type # "number" THEN FALSE
       ELSE CASE filter.operator = ">=" -> fieldValue.num >= filterValue.num
              [] filter.operator = "<=" -> fieldValue.num <= filterValue.num
              [] filter.operator = ">" -> fieldValue.num > filterValue.num
              [] filter.operator = "<" -> fieldValue.num < filterValue.num
              [] filter.operator = "=" -> fieldValue.num = filterValue.num
              [] OTHER -> TRUE

\* Array.prototype.filter with a predicate given by a filter: the elements
\* kept, in their order
FilterBy(input, filter, kind) ==
    LET kept == {i \in DOMAIN input :
                    IF kind = "query" THEN QueryFilterKeeps(input[i], filter)
                    ELSE CompareFilterKeeps(input[i], filter)}
        places == {<<Cardinality({j \in kept : j <= i}), i>> : i \in kept}
    IN [k \in 1..Cardinality(kept) |-> input[(CHOOSE p \in places : p[1] = k)[2]]]

applyQueryFilter(input, filter) == FilterBy(input, filter, "query")

applyCompareFilter(input, filter) == FilterBy(input, filter, "compare")

RECURSIVE ApplyQueryFilters(_, _, _)
ApplyQueryFilters(input, filters, k) ==
    IF k = 0 THEN input
    ELSE applyQueryFilter(ApplyQueryFilters(input, filters, k - 1), filters[k])

RECURSIVE ApplyCompareFilters(_, _, _)
ApplyCompareFilters(input, filters, k) ==
    IF k = 0 THEN input
    ELSE applyCompareFilter(ApplyCompareFilters(input, filters, k - 1), filters[k])

\* applyAllFilters that skips the compare filters
applyAllFiltersQueryOnly(input, filters) ==
    ApplyQueryFilters(input, filters.queryFilters, Len(filters.queryFilters))

\* applyAllFilters(rows) under the filters held in currentFilters
applyAllFilters(input, filters) ==
    ApplyCompareFilters(
        ApplyQueryFilters(input, filters.queryFilters, Len(filters.queryFilters)),
        filters.compareFilters, Len(filters.compareFilters))

\* Math.ceil(filteredRows.length / rowsPerPage)
TotalPages(filteredRows) == (Len(filteredRows) + rowsPerPage - 1) \div rowsPerPage

\* PageRows with a page one row short
PageRowsShort(filteredRows, currentPage) ==
    LET startIndex == currentPage * rowsPerPage
        endIndex == IF startIndex + rowsPerPage - 1 < Len(filteredRows)
                    THEN startIndex + rowsPerPage - 1 ELSE Len(filteredRows)
    IN SubSeq(filteredRows, startIndex + 1, endIndex)

\* filteredRows.slice(startIndex, endIndex)
PageRows(filteredRows, currentPage) ==
    LET startIndex == currentPage * rowsPerPage
        endIndex == IF startIndex + rowsPerPage < Len(filteredRows)
                    THEN startIndex + rowsPerPage ELSE Len(filteredRows)
    IN SubSeq(filteredRows, startIndex + 1, endIndex)

\* the rows of a report: n is the row's place in the report
TableRows(length) ==
    [i \in 1..length |->
        [n |-> Num(i),
         page |-> Str(IF i % 2 = 1 THEN <<"/", "a">> ELSE <<"/", "B">>),
         sessions |-> Num((2 * i) % 3)]]

TableLengths ==
    {k * rowsPerPage + e : k \in 0..(MaxPages - 1), e \in {0, 1}}

\* answers.sorting: absent, or one sort item on the metric
Sortings ==
    {[columns |-> <<NoneItem>>],
     [columns |-> <<SortItem("sessions", "asc")>>],
     [columns |-> <<SortItem("sessions", "desc")>>]}

\* what the user may enter as a query filter and as a compare filter
QueryFilterInputs ==
    {[field |-> "page", operator |-> "*", value |-> <<"A">>],
     [field |-> "sessions", operator |-> "<>", value |-> <<"1">>]}

CompareFilterInputs ==
    {[field |-> "sessions", operator |-> ">=", value |-> <<"1">>],
     [field |-> "page", operator |-> "=", value |-> <<"1">>]}

InitPagination ==
    /\ pc = "menu"
    /\ query = [dimensions |-> <<>>, metrics |-> <<>>]
    /\ apiDimensions = <<>>
    /\ dimensionMapping = [s \in {} |-> <<>>]
    /\ responseData = <<>>
    /\ rows = <<>>
    /\ call = NoCall
    /\ returned = <<>>
    /\ ModuleInit

\* renderOutput(rows, answers, cfg) with the table format: filter, sort,
\* enter displayTableWithPagination. Without any filter applyAllFilters
\* returns the rows array itself, which applySorting then sorts in place.
RenderOutput ==
    /\ pc = "menu"
    /\ \E length \in TableLengths, sorting \in Sortings :
           LET input == TableRows(length)
               filteredRows == applyAllFilters(input, currentFilters)
               sorts == NoneItem \notin Range(sorting.columns)
           IN \E sortedRows \in (IF sorts THEN applySorting(filteredRows, sorting)
                                 ELSE {filteredRows}) :
                  /\ rows' = IF sorts /\ currentFilters = NoFilters THEN sortedRows ELSE input
                  /\ call' = [fn |-> "displayTableWithPagination", sorting |-> sorting,
                              filteredRows |-> sortedRows, currentPage |-> 0,
                              onlyEnter |-> TRUE, last |-> "none", before |-> currentFilters]
    /\ shown' = <<>>
    /\ pc' = "page"
    /\ UNCHANGED <<query, apiDimensions, dimensionMapping, responseData, returned,
                   currentFilters, processVars, oauthVars>>

\* one turn of the while loop up to the prompt; return true after the last
\* page
ShowPage ==
    /\ pc = "page"
    /\ IF call.currentPage < TotalPages(call.filteredRows)
       THEN /\ shown' = Append(shown, PageRows(call.filteredRows, call.currentPage))
            /\ call' = [call EXCEPT !.currentPage = @ + 1]
            /\ IF call.currentPage + 1 < TotalPages(call.filteredRows)
               THEN pc' = "prompt" /\ UNCHANGED returned
               ELSE pc' = "returned" /\ returned' = TRUE
       ELSE /\ pc' = "returned"
            /\ returned' = TRUE
            /\ UNCHANGED <<call, shown>>
    /\ UNCHANGED <<query, apiDimensions, dimensionMapping, responseData, rows,
                   currentFilters, processVars, oauthVars>>

\* Enter (or any other text) at the prompt: 'continue'
PressEnter ==
    /\ pc = "prompt"
    /\ call' = [call EXCEPT !.last = "enter", !.before = currentFilters]
    /\ pc' = "page"
    /\ UNCHANGED <<query, apiDimensions, dimensionMapping, responseData, rows, returned,
                   uiVars, processVars, oauthVars>>

\* q at the prompt: 'quit', return false
PressQuit ==
    /\ pc = "prompt"
    /\ call' = [call EXCEPT !.last = "q", !.onlyEnter = FALSE, !.before = currentFilters]
    /\ returned' = FALSE
    /\ pc' = "returned"
    /\ UNCHANGED <<query, apiDimensions, dimensionMapping, responseData, rows,
                   uiVars, processVars, oauthVars>>

\* result === 'filter': applyAllFilters(originalRows) under the filters as
\* they are now, and displayTableWithPagination from the first page
Redisplay(command, filters) ==
    /\ currentFilters' = filters
    /\ call' = [call EXCEPT !.filteredRows = applyAllFilters(rows, filters),
                            !.currentPage = 0, !.onlyEnter = FALSE,
                            !.last = command, !.before = currentFilters]
    /\ shown' = <<>>
    /\ pc' = "page"
    /\ UNCHANGED <<query, apiDimensions, dimensionMapping, responseData, rows, returned,
                   processVars, oauthVars>>

FilterCount == Len(currentFilters.queryFilters) + Len(currentFilters.compareFilters)

\* fq: handleQueryFilter pushes the filter entered
AddQueryFilter ==
    /\ pc = "prompt"
    /\ Len(rows) > 0
    /\ FilterCount < MaxFilters
    /\ \E filter \in QueryFilterInputs :
           Redisplay("fq", [currentFilters EXCEPT !.queryFilters = Append(@, filter)])

\* fc: handleCompareFilter pushes the filter entered
AddCompareFilter ==
    /\ pc = "prompt"
    /\ Len(rows) > 0
    /\ FilterCount < MaxFilters
    /\ \E filter \in CompareFilterInputs :
           Redisplay("fc", [currentFilters EXCEPT !.compareFilters = Append(@, filter)])

\* fq or fc, then q at the value prompt: the handler returns without a push
CancelFilter ==
    /\ pc = "prompt"
    /\ Redisplay("cancel", currentFilters)

\* fx: clearAllFilters
ClearFilters ==
    /\ pc = "prompt"
    /\ Redisplay("fx", NoFilters)

\* renderOutput has returned: the CLI is back at its menu
BackToMenu ==
    /\ pc = "returned"
    /\ pc' = "menu"
    /\ call' = NoCall
    /\ returned' = <<>>
    /\ rows' = <<>>
    /\ shown' = <<>>
    /\ UNCHANGED <<query, apiDimensions, dimensionMapping, responseData,
                   currentFilters, processVars, oauthVars>>

NextPagination ==
    \/ RenderOutput
    \/ ShowPage
    \/ PressEnter
    \/ PressQuit
    \/ AddQueryFilter
    \/ AddCompareFilter
    \/ CancelFilter
    \/ ClearFilters
    \/ BackToMenu

SpecPagination == InitPagination /\ [][NextPagination]_vars

(***************************************************************************)
(* server.js: POST /api/query/adhoc and /api/query/preset, served          *)
(* concurrently by one process; each handler suspends at                    *)
(* await ensureAuthentication(cfg).                                         *)
(***************************************************************************)
MaxRequests == 2

\* the property getSelectedSite() returns to a request
Properties == {Str(<<"p", "1">>), Str(<<"p", "2">>)}

\* req.userId as authenticateToken left it: requests of different users
UserOfRequest(r) ==
    CASE r = 1 -> Str(<<"u", "1">>)
      [] r = 2 -> Str(<<"u", "2">>)
      [] OTHER -> Str(<<"u", "3">>)

NewRequest ==
    [pc |-> "received", route |-> "", userId |-> Undefined, selectedProperty |-> Undefined,
     propertyId |-> Undefined, envUserId |-> Undefined]

InitServer ==
    /\ pc = "serving"
    /\ query = [dimensions |-> <<>>, metrics |-> <<>>]
    /\ apiDimensions = <<>>
    /\ dimensionMapping = [s \in {} |-> <<>>]
    /\ responseData = <<>>
    /\ rows = <<>>
    /\ call = NoCall
    /\ returned = <<>>
    /\ currentFilters = NoFilters
    /\ shown = <<>>
    /\ env = [GA_PROPERTY_ID |-> Unset, USER_ID |-> Unset]
    /\ requests = [r \in 1..MaxRequests |-> NewRequest]
    /\ promise = "none"
    /\ server = "none"
    /\ timer = "none"

serverFrame == <<pc, query, apiDimensions, dimensionMapping, responseData, rows, call,
                 returned, uiVars, oauthVars>>

\* the handler up to its first await: setUserId(userId), the selected
\* property into process.env.GA_PROPERTY_ID, then await ensureAuthentication
HandleQuery(r) ==
    /\ requests[r].pc = "received"
    /\ \E route \in {"adhoc", "preset"}, selectedProperty \in Properties :
           /\ env' = [GA_PROPERTY_ID |-> selectedProperty, USER_ID |-> UserOfRequest(r)]
           /\ requests' = [requests EXCEPT ![r] =
                              [@ EXCEPT !.pc = "awaitingAuth", !.route = route,
                                        !.userId = UserOfRequest(r),
                                        !.selectedProperty = selectedProperty]]
    /\ UNCHANGED serverFrame

\* hasValidSiteSelection() is false: 400, nothing more is done
RejectWithoutSite(r) ==
    /\ requests[r].pc = "received"
    /\ env' = [env EXCEPT !.USER_ID = UserOfRequest(r)]
    /\ requests' = [requests EXCEPT ![r] =
                       [@ EXCEPT !.pc = "rejected", !.userId = UserOfRequest(r)]]
    /\ UNCHANGED serverFrame

\* ensureAuthentication has resolved: runQuery, whose runAnalytics takes
\* propertyId from process.env.GA_PROPERTY_ID as it is now (line 29)
RunReport(r) ==
    /\ requests[r].pc = "awaitingAuth"
    /\ requests' = [requests EXCEPT ![r] =
                       [@ EXCEPT !.pc = "responded",
                                 !.propertyId = env.GA_PROPERTY_ID,
                                 !.envUserId = env.USER_ID]]
    /\ UNCHANGED <<env, serverFrame>>

NextServer ==
    \E r \in 1..MaxRequests :
        \/ HandleQuery(r)
        \/ RejectWithoutSite(r)
        \/ RunReport(r)

SpecServer == InitServer /\ [][NextServer]_vars

(***************************************************************************)
(* The authentication entry points that put a dummy property ID into       *)
(* process.env.GA_PROPERTY_ID around getOAuth2Client: handleAuthentication *)
(* (cli/index.js) and POST /api/auth/oauth (server.js).                    *)
(***************************************************************************)
DummyPropertyId == Str(<<"1", "2", "3", "4", "5", "6", "7", "8", "9">>)

\* process.env.GA_PROPERTY_ID when an entry point is called
PropertyIdsBefore == {Unset, Str(<<>>)} \cup Properties

\* userId of the request body: absent, of no active user, of an active user
BodyUserIds == {Undefined, Str(<<"u", "0">>), Str(<<"u", "1">>), Str(<<"u", "2">>)}

ActiveUsers == {Str(<<"u", "1">>), Str(<<"u", "2">>)}

InitAuth ==
    /\ pc = "idle"
    /\ query = [dimensions |-> <<>>, metrics |-> <<>>]
    /\ apiDimensions = <<>>
    /\ dimensionMapping = [s \in {} |-> <<>>]
    /\ responseData = <<>>
    /\ rows = <<>>
    /\ call = NoCall
    /\ returned = <<>>
    /\ currentFilters = NoFilters
    /\ shown = <<>>
    /\ env \in [GA_PROPERTY_ID : PropertyIdsBefore, USER_ID : {Unset}]
    /\ requests = <<>>
    /\ promise = "none"
    /\ server = "none"
    /\ timer = "none"

authFrame == <<query, apiDimensions, dimensionMapping, responseData, rows, uiVars,
               requests, oauthVars>>

\* cli/index.js 34-41: save the property ID, set the dummy, await
\* getOAuth2Client
HandleAuthentication ==
    /\ pc = "idle"
    /\ call' = [fn |-> "handleAuthentication", before |-> env.GA_PROPERTY_ID,
                originalPropertyId |-> env.GA_PROPERTY_ID]
    /\ env' = [env EXCEPT !.GA_PROPERTY_ID = DummyPropertyId]
    /\ returned' = <<>>
    /\ pc' = "awaitingClient"
    /\ UNCHANGED authFrame

\* server.js 270-301: 400 without userId, 404 for an unknown user, else
\* setUserId, save the property ID, set the dummy, await getOAuth2Client
PostAuthOAuth ==
    /\ pc = "idle"
    /\ \E userId \in BodyUserIds :
           IF userId \in ActiveUsers
           THEN /\ call' = [fn |-> "POST /api/auth/oauth", before |-> env.GA_PROPERTY_ID,
                            originalPropertyId |-> env.GA_PROPERTY_ID]
                /\ env' = [GA_PROPERTY_ID |-> DummyPropertyId, USER_ID |-> userId]
                /\ returned' = <<>>
                /\ pc' = "awaitingClient"
           ELSE /\ call' = [fn |-> "POST /api/auth/oauth", before |-> env.GA_PROPERTY_ID,
                            originalPropertyId |-> Undefined]
                /\ returned' = IF Falsy(userId) THEN "400" ELSE "404"
                /\ pc' = "finished"
                /\ UNCHANGED env
    /\ UNCHANGED authFrame

\* getOAuth2Client resolved: restore the property ID, or delete it when the
\* saved value is falsy
ClientResolved ==
    /\ pc = "awaitingClient"
    /\ env' = [env EXCEPT !.GA_PROPERTY_ID =
                  IF Falsy(call.originalPropertyId) THEN Unset ELSE call.originalPropertyId]
    /\ returned' = "ok"
    /\ pc' = "finished"
    /\ UNCHANGED <<call, authFrame>>

\* getOAuth2Client threw: the catch block reports the error
ClientThrew ==
    /\ pc = "awaitingClient"
    /\ returned' = "failed"
    /\ pc' = "finished"
    /\ UNCHANGED <<call, env, authFrame>>

\* the entry point has finished; the process goes on
AuthDone ==
    /\ pc = "finished"
    /\ call' = NoCall
    /\ returned' = <<>>
    /\ pc' = "idle"
    /\ UNCHANGED <<env, authFrame>>

NextAuth ==
    \/ HandleAuthentication
    \/ PostAuthOAuth
    \/ ClientResolved
    \/ ClientThrew
    \/ AuthDone

SpecAuth == InitAuth /\ [][NextAuth]_vars

(***************************************************************************)
(* waitForCallback (analytics.js): a promise settled by the callback HTTP  *)
(* server on port 8888 or by the 5-minute timer.  requests is the history  *)
(* of what has happened to the call: the requests the server handled, by   *)
(* their code and error URL parameters, and the timer's expiry.            *)
(***************************************************************************)
MaxCallbacks == 3

CallbackParams == {Null, Str(<<"a">>), Str(<<"b">>)}

CallbackRequests == [code : CallbackParams, error : {Null, Str(<<"e">>)}]

TimerExpired == [code |-> Null, error |-> Str(<<"t", "i", "m", "e", "o", "u", "t">>)]

\* resolve and reject act on a pending promise only
Settle(state, outcome) ==
    IF promise = "pending"
    THEN promise' = state /\ returned' = outcome
    ELSE UNCHANGED <<promise, returned>>

\* server.close(): a listening server stops accepting connections
Close(state) == IF state = "listening" THEN "closing" ELSE state

InitOAuth ==
    /\ pc = "waiting"
    /\ query = [dimensions |-> <<>>, metrics |-> <<>>]
    /\ apiDimensions = <<>>
    /\ dimensionMapping = [s \in {} |-> <<>>]
    /\ responseData = <<>>
    /\ rows = <<>>
    /\ call = [fn |-> "waitForCallback"]
    /\ returned = <<>>
    /\ currentFilters = NoFilters
    /\ shown = <<>>
    /\ env = [GA_PROPERTY_ID |-> Unset, USER_ID |-> Unset]
    /\ requests = <<>>
    /\ promise = "pending"
    /\ server = "listening"
    /\ timer = "armed"

oauthFrame == <<pc, query, apiDimensions, dimensionMapping, responseData, rows, call,
                uiVars, env>>

\* lines 314-363: the request handler of the callback server
HandleCallback(req) ==
    /\ server = "listening"
    /\ Len(requests) < MaxCallbacks
    /\ requests' = Append(requests, req)
    /\ IF ~Falsy(req.error)
       THEN /\ Settle("rejected", req.error)
            /\ UNCHANGED server
       ELSE IF ~Falsy(req.code)
            THEN /\ Settle("resolved", req.code)
                 /\ server' = Close(server)
            ELSE UNCHANGED <<promise, returned, server>>
    /\ UNCHANGED <<timer, oauthFrame>>

\* lines 370-374: the timer expires
Timeout ==
    /\ timer = "armed"
    /\ timer' = "expired"
    /\ requests' = Append(requests, TimerExpired)
    /\ server' = Close(server)
    /\ Settle("rejected", TimerExpired.error)
    /\ UNCHANGED oauthFrame

\* lines 376-378: the server emits 'close' once its connections have ended
ServerClosed ==
    /\ server = "closing"
    /\ server' = "closed"
    /\ timer' = IF timer = "armed" THEN "cancelled" ELSE timer
    /\ UNCHANGED <<promise, returned, requests, oauthFrame>>

NextOAuth ==
    \/ \E req \in CallbackRequests : HandleCallback(req)
    \/ Timeout
    \/ ServerClosed

SpecOAuth == InitOAuth /\ [][NextOAuth]_vars

(***************************************************************************)
(* Properties.                                                             *)
(***************************************************************************)
Requested == Range(query.dimensions)

\* the API row a result row was built from, and what it carries at a position
RawDimensionValue(r, i) ==
    IF i \in DOMAIN responseData[r].dimensionValues.items
    THEN responseData[r].dimensionValues.items[i].value
    ELSE Str(<<>>)

PositionOf(source) == CHOOSE i \in DOMAIN apiDimensions : apiDimensions[i] = source

RawValueOf(r, source) == RawDimensionValue(r, PositionOf(source))

RowWellFormed(r) == WellFormed(responseData[r], apiDimensions, query.metrics)

Finished == pc \in {"projected", "done"}

\* a metric listed twice is written twice: the last entry stays
LastIndexOf(metric) ==
    CHOOSE k \in DOMAIN query.metrics :
        /\ query.metrics[k] = metric
        /\ \A j \in DOMAIN query.metrics : query.metrics[j] = metric => j <= k

\* a plain dimension: its own source, no registered transform
IsPlain(d) ==
    getSourceDimensionForAPI(d) = d /\ d \notin DOMAIN DIMENSION_PROCESSORS

\* the first position of the request that resolves to a source
FirstRequestOf(source) ==
    CHOOSE k \in DOMAIN query.dimensions :
        /\ getSourceDimensionForAPI(query.dimensions[k]) = source
        /\ \A j \in 1..(k - 1) : getSourceDimensionForAPI(query.dimensions[j]) # source

\* the rows put on the terminal, page after page
RECURSIVE ConcatPages(_)
ConcatPages(pages) ==
    IF pages = <<>> THEN <<>> ELSE Head(pages) \o ConcatPages(Tail(pages))

\* C1: whatever dimension list is requested (repeated names, several names
\* with one source), no source name occurs twice in the API Request
\* Dimensions list built by runAnalytics.
C1_ApiDimensionsDistinct ==
    \A i, j \in DOMAIN apiDimensions :
        i # j => apiDimensions[i] # apiDimensions[j]

C1_Witness ==
    /\ pc = "request"
    /\ query.dimensions = <<"exitPage", "exitPage">>
    /\ apiDimensions = <<"pagePath">>

\* C2 (as claimed): for every query and every API row, a requested derived
\* dimension d whose source s differs from d and is not itself requested
\* leaves the Final Row without key s and with key d.
C2_SourceHiddenDerivedShown ==
    Finished =>
        \A r \in DOMAIN rows : \A d \in Requested :
            LET s == getSourceDimensionForAPI(d)
            IN (s # d /\ s \notin Requested) =>
                   (s \notin DOMAIN rows[r] /\ d \in DOMAIN rows[r])

\* C3 (as claimed): when a derived dimension d and its source s are both
\* requested, every Final Row of a well-formed API row has key d and key s,
\* and key s holds the raw source value.
C3_SourceKeptWhenRequested ==
    Finished =>
        \A r \in DOMAIN rows : \A d \in Requested :
            LET s == getSourceDimensionForAPI(d)
            IN (s # d /\ s \in Requested /\ RowWellFormed(r)) =>
                   /\ d \in DOMAIN rows[r]
                   /\ s \in DOMAIN rows[r]
                   /\ rows[r][s] = RawValueOf(r, s)

\* C4 (as claimed): for every well-formed API row the keys of the Final Row
\* are exactly the requested dimension names and the requested metric names.
C4_FinalRowKeys ==
    Finished =>
        \A r \in DOMAIN rows :
            RowWellFormed(r) => DOMAIN rows[r] = Requested \cup Range(query.metrics)

C6_DomainScenario ==
    (pc # "start" /\ query.dimensions = <<"domain">>) =>
        /\ apiDimensions = <<"pagePath">>
        /\ Finished =>
               \A r \in DOMAIN rows :
                   RowWellFormed(r) =>
                       /\ "pagePath" \notin DOMAIN rows[r]
                       /\ Get(rows[r], "domain") = processDomain(rows[r], RawDimensionValue(r, 1))

\* C7 (as claimed): every dimension with a registered transform has an
\* entry in the source-name map the request resolver consults, and that
\* entry is the source the resolver sends for it.
C7_ProcessorsHaveConfigEntry ==
    \A d \in DOMAIN DIMENSION_PROCESSORS :
        /\ d \in DOMAIN ConfigDimensions
        /\ (pc # "start" /\ d \in Requested) => ConfigDimensions[d] \in Range(apiDimensions)

\* C8: the API Request Dimensions list is in first-seen order of the
\* requested dimensions' sources, and position i of a row's dimensionValues
\* is assigned to the i-th source of the list.
C8_FirstSeenOrder ==
    /\ \A i \in DOMAIN apiDimensions :
           \E k \in DOMAIN query.dimensions :
               getSourceDimensionForAPI(query.dimensions[k]) = apiDimensions[i]
    /\ LET first == [i \in DOMAIN apiDimensions |-> FirstRequestOf(apiDimensions[i])]
       IN \A i, j \in DOMAIN apiDimensions : (i < j) <=> (first[i] < first[j])
    /\ pc = "built" =>
           \A r \in DOMAIN rows : \A i \in DOMAIN apiDimensions :
               (responseData[r].dimensionValues.present
                   /\ i \in DOMAIN responseData[r].dimensionValues.items) =>
                   Get(rows[r], apiDimensions[i]) =
                       responseData[r].dimensionValues.items[i].value

C8_Witness ==
    /\ pc = "built"
    /\ query.dimensions = <<"userType", "date">>
    /\ apiDimensions = <<"newVsReturning", "date">>
    /\ Len(rows) >= 1
    /\ RowWellFormed(1)
    /\ rows[1]["newVsReturning"] = Str(<<"n", "e", "w">>)
    /\ rows[1]["date"] = Str(<<"2", "0", "2", "5">>)

\* C9: after the resolver, the keys of the Dimension Mapping Table are the
\* entries of the API list, no bucket is empty, a requested dimension is in
\* the bucket of its resolved source and in no other, and the API list is
\* no longer than the requested list.
C9_MappingTable ==
    pc # "start" =>
        /\ DOMAIN dimensionMapping = Range(apiDimensions)
        /\ \A s \in DOMAIN dimensionMapping : dimensionMapping[s] # <<>>
        /\ \A d \in Requested :
               /\ getSourceDimensionForAPI(d) \in DOMAIN dimensionMapping
               /\ \A s \in DOMAIN dimensionMapping :
                      (d \in Range(dimensionMapping[s])) <=> (s = getSourceDimensionForAPI(d))
        /\ Len(apiDimensions) <= Len(query.dimensions)

C9_Witness ==
    /\ pc = "request"
    /\ query.dimensions = <<"exitPage", "pagePath">>
    /\ apiDimensions = <<"pagePath">>
    /\ dimensionMapping["pagePath"] = <<"exitPage", "pagePath">>

\* C10 (as claimed): for every API row the Expanded Row has a key for every
\* source name and every user-facing name of the Dimension Mapping Table,
\* each holding the untransformed API value of its source.
C10_ExpandedRowKeys ==
    pc = "built" =>
        \A r \in DOMAIN rows : \A s \in DOMAIN dimensionMapping :
            /\ s \in DOMAIN rows[r]
            /\ rows[r][s] = RawValueOf(r, s)
            /\ \A u \in Range(dimensionMapping[s]) :
                   u \in DOMAIN rows[r] /\ rows[r][u] = RawValueOf(r, s)

\* C11 (as claimed): a row that lacks its dimensionValues array still
\* carries every requested dimension key with the empty string, a row that
\* lacks its metricValues array every requested metric key with 0.
C11_MissingArraysDefaulted ==
    Finished =>
        \A r \in DOMAIN rows :
            /\ ~responseData[r].dimensionValues.present =>
                   \A d \in Requested :
                       d \in DOMAIN rows[r] /\ rows[r][d] = Str(<<>>)
            /\ ~responseData[r].metricValues.present =>
                   \A m \in Range(query.metrics) :
                       m \in DOMAIN rows[r] /\ rows[r][m] = Num(0)

\* C12: when a row's dimensionValues array is shorter than the API Request
\* Dimensions list, a source whose position is missing and every user-facing
\* key mapped to it hold the empty string in the Expanded Row, and the
\* positions that are present keep their values.
C12_ShortDimensionValues ==
    pc = "built" =>
        \A r \in DOMAIN rows :
            responseData[r].dimensionValues.present =>
                \A i \in DOMAIN apiDimensions :
                    LET items == responseData[r].dimensionValues.items
                        expected == IF i <= Len(items) THEN items[i].value ELSE Str(<<>>)
                    IN /\ Get(rows[r], apiDimensions[i]) = expected
                       /\ \A u \in Range(dimensionMapping[apiDimensions[i]]) :
                              Get(rows[r], u) = expected

C12_Witness ==
    /\ pc = "built"
    /\ query.dimensions = <<"date", "userType">>
    /\ Len(rows) >= 1
    /\ responseData[1].dimensionValues.present
    /\ Len(responseData[1].dimensionValues.items) = 1
    /\ Len(apiDimensions) = 2
    /\ rows[1]["date"] = Str(<<"2", "0", "2", "5">>)
    /\ rows[1]["newVsReturning"] = Str(<<>>)
    /\ rows[1]["userType"] = Str(<<>>)

\* C19 (as claimed): when two different requested dimensions resolve to one
\* source, the source is in the API Request Dimensions list once and each of
\* the two names is a key of every Expanded Row holding the shared source
\* value.
C19_SharedSourceKeys ==
    pc = "built" =>
        \A d1, d2 \in Requested :
            (d1 # d2 /\ getSourceDimensionForAPI(d1) = getSourceDimensionForAPI(d2)) =>
                LET source == getSourceDimensionForAPI(d1)
                IN /\ Cardinality({i \in DOMAIN apiDimensions : apiDimensions[i] = source}) = 1
                   /\ \A r \in DOMAIN rows :
                          /\ d1 \in DOMAIN rows[r]
                          /\ d2 \in DOMAIN rows[r]
                          /\ rows[r][d1] = RawValueOf(r, source)
                          /\ rows[r][d2] = RawValueOf(r, source)

\* C13: for every requested metric whose entry in a row's metricValues is
\* absent, has no value field or has an empty value, the Final Row's field
\* for that metric is the number 0.
C13_MissingMetricIsZero ==
    Finished =>
        \A r \in DOMAIN rows :
            responseData[r].metricValues.present =>
                \A m \in Range(query.metrics) :
                    LET items == responseData[r].metricValues.items
                        k == LastIndexOf(m)
                    IN (\/ k \notin DOMAIN items
                        \/ items[k].value = Undefined
                        \/ items[k].value = Str(<<>>))
                       => /\ m \in DOMAIN rows[r]
                          /\ rows[r][m] = Num(0)

C13_Witness ==
    /\ pc = "done"
    /\ query.metrics = <<"sessions">>
    /\ Len(rows) >= 1
    /\ responseData[1].metricValues = Present(<<[value |-> Undefined]>>)
    /\ rows[1]["sessions"] = Num(0)

\* C14 (as claimed): every metric field of every Final Row is a proper
\* number, 0 when the API value is a non-empty string that is not a number.
C14_MetricFieldsAreNumbers ==
    Finished =>
        \A r \in DOMAIN rows :
            \A m \in Range(query.metrics) \cap DOMAIN rows[r] :
                rows[r][m].type = "number"

\* C15 (as claimed): processRow run on its own output with the same
\* dimension list returns that output: processRow(processRow(r, D), D) =
\* processRow(r, D) for every Expanded Row r and dimension list D over the
\* registered transforms.
C15_ProcessRowIdempotent ==
    pc = "again" => returned = call.row

\* C16: every registered transform called with the empty string, null or
\* undefined as source value returns the empty string and does not throw.
C16_EmptySourceGivesDefault ==
    (/\ pc = "returned"
     /\ call.fn \in Range(DIMENSION_PROCESSORS)
     /\ call.arg \in {Str(<<>>), Null, Undefined})
        => returned = Str(<<>>)

C16_Witness ==
    /\ pc = "returned"
    /\ call.fn = "processDomain"
    /\ call.arg = Null
    /\ returned = Str(<<>>)

\* C17 (as claimed): the pageTitle transform removes only the text from the
\* last occurrence of the separator " - " (space, dash, space) on; a title
\* without that separator, a bare dash included, comes back unchanged apart
\* from white space collapsing and trimming.
C17_PageTitleLastSeparator ==
    (/\ pc = "returned"
     /\ call.fn = "processPageTitle"
     /\ call.arg.type = "string"
     /\ call.arg.chars # <<>>)
        => LET title == call.arg.chars
               separators == {i \in 1..(Len(title) - 2) :
                                 title[i] = " " /\ title[i + 1] = "-" /\ title[i + 2] = " "}
               last == CHOOSE i \in separators : \A j \in separators : j <= i
               kept == IF separators = {} THEN title ELSE SubSeq(title, 1, last - 1)
           IN returned = Str(Trim(CollapseSpaces(kept)))

\* C18 (as claimed): the deviceCategory transform maps desktop, mobile and
\* tablet in any letter case to Desktop, Mobile and Tablet and returns every
\* other non-empty value unchanged.
C18_DeviceCategoryLabels ==
    (/\ pc = "returned"
     /\ call.fn = "processDeviceCategory"
     /\ call.arg.type = "string"
     /\ call.arg.chars # <<>>)
        => LET key == ToLowerCase(call.arg.chars)
           IN returned =
                  IF key = <<"d", "e", "s", "k", "t", "o", "p">>
                  THEN Str(<<"D", "e", "s", "k", "t", "o", "p">>)
                  ELSE IF key = <<"m", "o", "b", "i", "l", "e">>
                       THEN Str(<<"M", "o", "b", "i", "l", "e">>)
                       ELSE IF key = <<"t", "a", "b", "l", "e", "t">>
                            THEN Str(<<"T", "a", "b", "l", "e", "t">>)
                            ELSE call.arg

\* C20 (as claimed): applySorting with a list of {column, direction} items
\* returns the input rows ordered lexicographically by those items in
\* selection order (desc reverses a key), and rows equal on every sort key
\* keep their relative input order.
C20_SortedByItemsStable ==
    (/\ pc = "sorted"
     /\ Len(call.sortingConfig.columns) > 0
     /\ \A i \in DOMAIN call.sortingConfig.columns : IsSortItem(call.sortingConfig.columns[i]))
        => LET sortItems == call.sortingConfig.columns
           IN /\ returned \in Rearrangements(call.rows)
              /\ \A i, j \in DOMAIN returned :
                     i < j =>
                         /\ CompareRows(returned[i], returned[j], sortItems, 1) <= 0
                         /\ (\A k \in DOMAIN sortItems :
                                 returned[i][sortItems[k].column] = returned[j][sortItems[k].column])
                                => returned[i].n.num < returned[j].n.num

\* C21 (as claimed): for a query with orderBys the rows runAnalytics returns
\* are sorted by the orderBy fields in the order given, ascending unless
\* desc is set, a metric by its number and a dimension by its string value.
C21_ReturnedRowsOrdered ==
    (pc = "done" /\ Len(query.orderBys) > 0) =>
        \A i, j \in DOMAIN rows :
            i < j =>
                CompareRows(rows[i], rows[j],
                            [k \in DOMAIN query.orderBys |->
                                SortItem(IF query.orderBys[k].metric # ""
                                         THEN query.orderBys[k].metric
                                         ELSE query.orderBys[k].dimension,
                                         IF query.orderBys[k].desc THEN "desc" ELSE "asc")],
                            1) <= 0

\* C22: table pagination shows 50 rows per page. With Enter at every prompt
\* the loop ends after ceil(n/50) pages, every row of the filtered and sorted
\* row set has been displayed exactly once in order and the function returns
\* true; q at a prompt returns false without showing a further page.
C22_PaginationPages ==
    pc = "returned" =>
        LET n == Len(call.filteredRows)
            pages == CHOOSE k \in 0..n : 50 * k >= n /\ 50 * (k - 1) < n
        IN /\ call.onlyEnter =>
                  /\ returned = TRUE
                  /\ Len(shown) = pages
                  /\ \A k \in DOMAIN shown : Len(shown[k]) <= 50
                  /\ ConcatPages(shown) = call.filteredRows
           /\ call.last = "q" =>
                  /\ returned = FALSE
                  /\ Len(shown) < pages
                  /\ ConcatPages(shown) = SubSeq(call.filteredRows, 1, 50 * Len(shown))

C22_Witness ==
    /\ pc = "returned"
    /\ call.onlyEnter
    /\ Len(call.filteredRows) = 101
    /\ Len(shown) = 3
    /\ Len(shown[3]) = 1
    /\ returned = TRUE

\* C27 (as claimed): after any sequence of filter commands and across
\* renderOutput calls the rows in pagination are exactly the original rows
\* that satisfy every filter held in currentFilters, in their original
\* relative order; a cancelled prompt leaves currentFilters unchanged and fx
\* leaves it empty.
C27_FilteredRowsOriginalOrder ==
    pc \in {"page", "prompt", "returned"} =>
        LET keeps(row) ==
                /\ \A k \in DOMAIN currentFilters.queryFilters :
                       QueryFilterKeeps(row, currentFilters.queryFilters[k])
                /\ \A k \in DOMAIN currentFilters.compareFilters :
                       CompareFilterKeeps(row, currentFilters.compareFilters[k])
            paged == call.filteredRows
        IN /\ {paged[i].n.num : i \in DOMAIN paged}
                  = {rows[i].n.num : i \in {j \in DOMAIN rows : keeps(rows[j])}}
           /\ \A i, j \in DOMAIN paged : i < j => paged[i].n.num < paged[j].n.num
           /\ ConcatPages(shown) = SubSeq(paged, 1, Len(ConcatPages(shown)))
           /\ call.last = "cancel" => currentFilters = call.before
           /\ call.last = "fx" => currentFilters = NoFilters

\* C27 (amended): the rows in pagination are exactly the original rows that
\* satisfy every filter held in currentFilters, each once; they are in their
\* original relative order when no sorting configuration is given. A
\* cancelled prompt leaves currentFilters unchanged and fx leaves it empty.
C27_FilteredRowsShown ==
    pc \in {"page", "prompt", "returned"} =>
        LET keeps(row) ==
                /\ \A k \in DOMAIN currentFilters.queryFilters :
                       QueryFilterKeeps(row, currentFilters.queryFilters[k])
                /\ \A k \in DOMAIN currentFilters.compareFilters :
                       CompareFilterKeeps(row, currentFilters.compareFilters[k])
            paged == call.filteredRows
            numbers == {paged[i].n.num : i \in DOMAIN paged}
        IN /\ numbers = {rows[i].n.num : i \in {j \in DOMAIN rows : keeps(rows[j])}}
           /\ Cardinality(numbers) = Len(paged)
           /\ NoneItem \in Range(call.sorting.columns) =>
                  \A i \in 1..(Len(paged) - 1) : paged[i].n.num < paged[i + 1].n.num
           /\ ConcatPages(shown) = SubSeq(paged, 1, Len(ConcatPages(shown)))
           /\ call.last = "cancel" => currentFilters = call.before
           /\ call.last = "fx" => currentFilters = NoFilters

C27_Witness ==
    /\ pc = "prompt"
    /\ call.last = "fc"
    /\ Len(currentFilters.queryFilters) = 0
    /\ Len(currentFilters.compareFilters) = 1
    /\ Len(rows) = 101
    /\ Len(call.filteredRows) > 50
    /\ Len(call.filteredRows) < 101
    /\ Len(shown) = 1

\* C28 (as claimed): in table output with a sorting configuration the rows
\* re-displayed after a filter command (fq, fc, fx) are still ordered by
\* that configuration, whether or not filters were active when renderOutput
\* was called.
C28_RedisplayKeepsSorting ==
    (/\ pc \in {"page", "prompt", "returned"}
     /\ call.last \in {"fq", "fc", "cancel", "fx"}
     /\ NoneItem \notin Range(call.sorting.columns))
        => \A i \in 1..(Len(call.filteredRows) - 1) :
               CompareRows(call.filteredRows[i], call.filteredRows[i + 1],
                           call.sorting.columns, 1) <= 0

\* C23 (as claimed): for any interleaving of two query requests of different
\* users, the report of each request is run against the property ID and the
\* user ID that the same request established.
C23_RequestUsesOwnPropertyAndUser ==
    \A r \in DOMAIN requests :
        requests[r].pc = "responded" =>
            /\ requests[r].propertyId = requests[r].selectedProperty
            /\ requests[r].envUserId = requests[r].userId

\* C29 (as claimed): handleAuthentication and POST /api/auth/oauth leave
\* process.env.GA_PROPERTY_ID as it was before the call (unset if it was
\* unset) when they finish, whether getOAuth2Client succeeds or throws.
C29_PropertyIdRestored ==
    pc = "finished" => env.GA_PROPERTY_ID = call.before

Settling(event) == ~Falsy(event.error) \/ ~Falsy(event.code)

RECURSIVE FirstSettling(_)
FirstSettling(events) ==
    IF events = <<>> THEN Null
    ELSE IF Settling(Head(events))
         THEN IF ~Falsy(Head(events).error) THEN Head(events).error ELSE Head(events).code
         ELSE FirstSettling(Tail(events))

\* C30 (as claimed): the promise of waitForCallback is settled once, by the
\* first authorization code, OAuth error or timeout, and whenever it is
\* settled the callback server no longer listens and the timer is no longer
\* armed.
C30_SettledOnceAndReleased ==
    promise \in {"resolved", "rejected"} =>
        /\ returned = FirstSettling(requests)
        /\ server # "listening"
        /\ timer # "armed"

\* C24 (as claimed): after the Row Transformer, every requested dimension
\* with a registered transform holds that transform applied to the raw API
\* value of the source the request resolver used for it, and every other
\* key keeps its Expanded Row value.
C24_TransformOfResolvedSource ==
    pc = "transformed" =>
        \A r \in DOMAIN rows :
            LET expanded == BuildRow(responseData[r], query, apiDimensions, dimensionMapping)
            IN \A d \in DOMAIN rows[r] :
                   IF d \in Requested /\ d \in DOMAIN DIMENSION_PROCESSORS
                   THEN rows[r][d] =
                            CallProcessor(DIMENSION_PROCESSORS[d], expanded,
                                          RawValueOf(r, getSourceDimensionForAPI(d)))
                   ELSE rows[r][d] = Get(expanded, d)

\* the orders a dimension list can be given in
Reorderings(dimensions) ==
    {[i \in DOMAIN dimensions |-> dimensions[p[i]]] :
        p \in {q \in [DOMAIN dimensions -> DOMAIN dimensions] :
                  \A i, j \in DOMAIN dimensions : i # j => q[i] # q[j]}}

\* C25: processRow works on a copy of its input row: the keys it is not
\* asked to process are those of the input, every processed dimension holds
\* its transform of the source value read from the input row as it was
\* passed in, and the dimensions in any other order give the same record; a
\* call ends in an exception only when a transform throws on the input
\* row's own value.
C25_ProcessRowReadsInput ==
    (pc \in {"returned", "again"} /\ call.fn \in {"processRow", "processRowAgain"}) =>
        LET processed == Range(call.dimensions) \cap DOMAIN DIMENSION_PROCESSORS
            FromInput(d) ==
                CallProcessor(DIMENSION_PROCESSORS[d], call.row, getSourceValue(d, call.row))
        IN IF Threw(returned)
           THEN \E d \in processed : FromInput(d) = TypeError
           ELSE /\ DOMAIN returned = DOMAIN call.row \cup processed
                /\ \A k \in DOMAIN call.row \ processed : returned[k] = call.row[k]
                /\ \A d \in processed : returned[d] = FromInput(d)
                /\ \A other \in Reorderings(call.dimensions) :
                       processRow(call.row, other) = returned

\* a call on two different dimensions, both of which the transforms change
C25_Witness ==
    /\ pc = "returned"
    /\ call.fn = "processRow"
    /\ Len(call.dimensions) = 2
    /\ call.dimensions[1] # call.dimensions[2]
    /\ \A i \in 1..2 :
           /\ call.dimensions[i] \in DOMAIN call.row
           /\ returned[call.dimensions[i]] # call.row[call.dimensions[i]]

\* a dimension list without its repeated occurrences
RECURSIVE RemoveRepeats(_)
RemoveRepeats(dims) ==
    IF dims = <<>> THEN <<>>
    ELSE LET front == RemoveRepeats(SubSeq(dims, 1, Len(dims) - 1))
             last == dims[Len(dims)]
         IN IF last \in Range(front) THEN front ELSE Append(front, last)

\* C26: when a dimension name is requested more than once, nothing throws,
\* and the API Request Dimensions list and every Final Row are those of the
\* same request with the repeated occurrences removed.
C26_RepeatedNamesIgnored ==
    (pc # "start" /\ RemoveRepeats(query.dimensions) # query.dimensions) =>
        LET plain == RemoveRepeats(query.dimensions)
            resolved == ResolveDimensions(plain)
            request == [query EXCEPT !.dimensions = plain]
        IN /\ apiDimensions = resolved.api
           /\ Finished =>
                  \A r \in DOMAIN rows :
                      /\ ~Threw(rows[r])
                      /\ rows[r] =
                             FilterRow(processRow(BuildRow(responseData[r], request,
                                                           resolved.api, resolved.map),
                                                  plain),
                                       plain)

\* a finished request for userType twice, with a complete row
C26_Witness ==
    /\ pc = "done"
    /\ query.dimensions = <<"userType", "userType">>
    /\ rows # <<>>
    /\ RowWellFormed(1)

====
